---- MODULE Spec2Model ----
(***************************************************************************)
(* Pi_Birthday_Finder.py: finde_geburtsdatum_in_pi searches the decimal    *)
(* digits of pi for the digits of a date (and optional time) and derives   *)
(* illustrations from the match position; the __main__ block is the        *)
(* interactive entry point.                                                *)
(*                                                                         *)
(* Python strings are sequences of one-character strings; "LF" stands for  *)
(* the newline character.  Python's None is the one-element sequence       *)
(* <<"None">>, which is no character string of the model.                  *)
(***************************************************************************)
EXTENDS Integers, Sequences, FiniteSets, TLC

VARIABLES
    mp_dps,        \* mpmath's global working precision mp.dps
    aufruf,        \* Spec: arguments of the last call (None before the first)
    ergebnis,      \* Spec: the dictionary the last call returned
    pi_berechnet,  \* Spec: whether the last call evaluated str(mp.pi)
    ref,           \* Spec: the first call of the session, arguments and result
    proc,          \* SpecConc: per thread, the position in the function and its locals
    haupt,         \* SpecMain: position and locals of the __main__ block
    stelle,        \* SpecAnalogy: a match position
    analog         \* SpecAnalogy: the illustrations computed for it

vars == <<mp_dps, aufruf, ergebnis, pi_berechnet, ref, proc, haupt, stelle, analog>>

None == <<"None">>

\* the value of a local or a result that is not set yet
Kein == [kein |-> TRUE]

-----------------------------------------------------------------------------
(* Bounds of the model *)

\* largest precision budget (max_stellen) a modelled call passes
MaxStellen == 70
\* match positions 0..MaxPosition are illustrated in SpecAnalogy
MaxPosition == 8200
\* and the positions within Fenster of the walking threshold
Fenster == 120

-----------------------------------------------------------------------------
(* Python built-ins used by the function *)

Min(a, b) == IF a < b THEN a ELSE b
Max(a, b) == IF a > b THEN a ELSE b

ZiffernFolge == <<"0", "1", "2", "3", "4", "5", "6", "7", "8", "9">>
Ziffern == {ZiffernFolge[i] : i \in 1..10}
Zeichen(d) == ZiffernFolge[d + 1]
Wert(c) == CHOOSE d \in 0..9 : ZiffernFolge[d + 1] = c

\* int() of a string of digits
RECURSIVE IntVon(_)
IntVon(s) ==
    IF s = <<>> THEN 0
    ELSE 10 * IntVon(SubSeq(s, 1, Len(s) - 1)) + Wert(s[Len(s)])

\* a slice index, as Python normalises it for a sequence of length n
PyIndex(i, n) == IF i < 0 THEN Max(i + n, 0) ELSE Min(i, n)

\* s[a:b]
Slice(s, a, b) ==
    LET lo == PyIndex(a, Len(s))
        hi == PyIndex(b, Len(s))
    IN  IF lo >= hi THEN <<>> ELSE SubSeq(s, lo + 1, hi)

\* s[:b]
SliceBis(s, b) == Slice(s, 0, b)

\* s[a:]
SliceAb(s, a) == Slice(s, a, Len(s))

\* s.replace(".", "")
RECURSIVE OhnePunkte(_)
OhnePunkte(s) ==
    IF s = <<>> THEN <<>>
    ELSE IF s[1] = "." THEN OhnePunkte(Tail(s))
    ELSE <<s[1]>> \o OhnePunkte(Tail(s))

\* the least element of a set of indices, -1 for the empty set
Kleinstes(S) ==
    IF S = {} THEN -1 ELSE CHOOSE i \in S : \A j \in S : i <= j

\* h.find(n): the least 0-based index where n occurs in h, -1 when there is none
Find(h, n) ==
    Kleinstes({i \in 0..(Len(h) - Len(n)) : SubSeq(h, i + 1, i + Len(n)) = n})

-----------------------------------------------------------------------------
(* datetime.strptime(geburtsdatum, "%d.%m.%Y")                               *)
(* _strptime turns the format into the regular expression                    *)
(*   (3[0-1]|[1-2]\d|0[1-9]|[1-9]| [1-9])\.(1[0-2]|0[1-9]|[1-9])\.(\d\d\d\d) *)
(* matches it at the start of the string, rejects unconverted data after     *)
(* the match, and rejects a day-month-year that is no calendar date.         *)

Eins_Neun == Ziffern \ {"0"}

\* the %d directive: 3[0-1] | [1-2]\d | 0[1-9] | [1-9] | " "[1-9]
TagOk(t) ==
    \/ /\ Len(t) = 2
       /\ \/ t[1] = "3" /\ t[2] \in {"0", "1"}
          \/ t[1] \in {"1", "2"} /\ t[2] \in Ziffern
          \/ t[1] = "0" /\ t[2] \in Eins_Neun
          \/ t[1] = " " /\ t[2] \in Eins_Neun
    \/ Len(t) = 1 /\ t[1] \in Eins_Neun

\* the %m directive: 1[0-2] | 0[1-9] | [1-9]
MonatOk(t) ==
    \/ /\ Len(t) = 2
       /\ \/ t[1] = "1" /\ t[2] \in {"0", "1", "2"}
          \/ t[1] = "0" /\ t[2] \in Eins_Neun
    \/ Len(t) = 1 /\ t[1] \in Eins_Neun

\* the %Y directive: \d\d\d\d
JahrOk(t) == Len(t) = 4 /\ \A i \in 1..4 : t[i] \in Ziffern

\* int() of a directive's text (int ignores the blank the %d directive admits)
TokenWert(t) == IF t[1] = " " THEN IntVon(Tail(t)) ELSE IntVon(t)

Schaltjahr(j) == (j % 4 = 0 /\ j % 100 # 0) \/ j % 400 = 0

TageImMonat(j, m) ==
    IF m = 2 THEN (IF Schaltjahr(j) THEN 29 ELSE 28)
    ELSE IF m \in {4, 6, 9, 11} THEN 30 ELSE 31

\* the date class accepts years MINYEAR = 1 .. 9999 and the days of the month
KalenderOk(tag, monat, jahr) ==
    /\ jahr >= 1
    /\ tag >= 1
    /\ tag <= TageImMonat(jahr, monat)

\* TRUE when strptime returns a datetime, FALSE when it raises ValueError
Strptime(s) ==
    \E i \in 1..Len(s) : \E j \in (i + 1)..Len(s) :
        /\ s[i] = "."
        /\ s[j] = "."
        /\ TagOk(SubSeq(s, 1, i - 1))
        /\ MonatOk(SubSeq(s, i + 1, j - 1))
        /\ JahrOk(SubSeq(s, j + 1, Len(s)))
        /\ KalenderOk(TokenWert(SubSeq(s, 1, i - 1)),
                      TokenWert(SubSeq(s, i + 1, j - 1)),
                      IntVon(SubSeq(s, j + 1, Len(s))))

\* re.match(r'^\d{2}\.\d{2}$', geburtszeit): $ matches at the end of the string
\* and also just before a newline that ends the string
ZeitRegex(t) ==
    /\ Len(t) = 5 \/ (Len(t) = 6 /\ t[6] = "LF")
    /\ t[1] \in Ziffern
    /\ t[2] \in Ziffern
    /\ t[3] = "."
    /\ t[4] \in Ziffern
    /\ t[5] \in Ziffern

\* the truth value of the geburtszeit argument in "if geburtszeit:"
Wahr(zeit) == zeit # None /\ zeit # <<>>

FehlerDatum == "Ungueltiges Datumsformat. Bitte DD.MM.YYYY verwenden."
FehlerZeit == "Ungueltiges Zeitformat. Bitte HH.MM verwenden."

\* lines 18-31: validation and the search string.  ok = FALSE carries the
\* dictionary returned early; ok = TRUE carries suchstring.
Validierung(geburtsdatum, geburtszeit) ==
    IF ~Strptime(geburtsdatum)
    THEN [ok |-> FALSE, ergebnis |-> [fehler |-> FehlerDatum]]
    ELSE IF ~Wahr(geburtszeit)
    THEN [ok |-> TRUE, suchstring |-> OhnePunkte(geburtsdatum)]
    ELSE IF ~ZeitRegex(geburtszeit)
    THEN [ok |-> FALSE, ergebnis |-> [fehler |-> FehlerZeit]]
    ELSE [ok |-> TRUE,
          suchstring |-> OhnePunkte(geburtsdatum) \o OhnePunkte(geburtszeit)]

-----------------------------------------------------------------------------
(* mp.pi and str(mp.pi) of the mpmath library *)

\* the first decimals of pi
PiTabelle ==
  <<1, 4, 1, 5, 9, 2, 6, 5, 3, 5, 8, 9, 7, 9, 3, 2, 3, 8, 4, 6, 2, 6, 4, 3, 3, 8, 3, 2, 7, 9, 5, 0, 2, 8, 8, 4, 1, 9, 7, 1,
    6, 9, 3, 9, 9, 3, 7, 5, 1, 0, 5, 8, 2, 0, 9, 7, 4, 9, 4, 4, 5, 9, 2, 3, 0, 7, 8, 1, 6, 4, 0, 6, 2, 8, 6, 2, 0, 8, 9, 9,
    8, 6, 2, 8, 0, 3, 4, 8, 2, 5, 3, 4, 2, 1, 1, 7, 0, 6, 7, 9, 8, 2, 1, 4, 8, 0, 8, 6, 5, 1, 3, 2, 8, 2, 3, 0, 6, 6, 4, 7,
    0, 9, 3, 8, 4, 4, 6, 0, 9, 5, 5, 0, 5, 8, 2, 2, 3, 1, 7, 2, 5, 3, 5, 9, 4, 0, 8, 1, 2, 8, 4, 8, 1, 1, 1, 7, 4, 5, 0, 2,
    8, 4, 1, 0, 2, 7, 0, 1, 9, 3, 8, 5, 2, 1, 1, 0, 5, 5, 5, 9, 6, 4, 4, 6, 2, 2, 9, 4, 8, 9, 5, 4, 9, 3, 0, 3, 8, 1, 9, 6,
    4, 4, 2, 8, 8, 1, 0, 9, 7, 5, 6, 6, 5, 9, 3, 3, 4, 4, 6, 1, 2, 8, 4, 7, 5, 6, 4, 8, 2, 3, 3, 7, 8, 6, 7, 8, 3, 1, 6, 5>>

\* mpmath's default working precision
DpsStandard == 15

\* digits + 1 on a digit sequence, the carry running left
RECURSIVE PlusEins(_)
PlusEins(ds) ==
    IF ds = <<>> THEN <<1>>
    ELSE IF ds[Len(ds)] < 9
    THEN SubSeq(ds, 1, Len(ds) - 1) \o <<ds[Len(ds)] + 1>>
    ELSE PlusEins(SubSeq(ds, 1, Len(ds) - 1)) \o <<0>>

\* rstrip('0') of the fraction, one digit always kept
RECURSIVE OhneEndnullen(_)
OhneEndnullen(ds) ==
    IF Len(ds) > 1 /\ ds[Len(ds)] = 0
    THEN OhneEndnullen(SubSeq(ds, 1, Len(ds) - 1))
    ELSE ds

\* str(mp.pi) at working precision dps: dps significant digits, the last one
\* rounded half-up on the digit that follows, trailing zeros stripped
\* the decimal text of a digit sequence
Text(ds) == [i \in 1..Len(ds) |-> Zeichen(ds[i])]

\* the integer part, the point, and the fraction without its trailing zeros
FestkommaText(ganz, bruch) == Text(ganz) \o <<".">> \o Text(OhneEndnullen(bruch))

\* the digits of pi rounded half-up to dps significant digits
PiGerundet(dps) ==
    IF PiTabelle[dps] >= 5
    THEN PlusEins(<<3>> \o SubSeq(PiTabelle, 1, dps - 1))
    ELSE <<3>> \o SubSeq(PiTabelle, 1, dps - 1)

\* dps significant digits as text, dps - 1 of them after the point
ZuText(ziffern, dps) ==
    FestkommaText(SubSeq(ziffern, 1, Len(ziffern) - (dps - 1)),
                  SubSeq(ziffern, Len(ziffern) - (dps - 1) + 1, Len(ziffern)))

PiStr(dps) == ZuText(PiGerundet(dps), dps)

\* pi_str.split('.')[1]: what follows the decimal point
Nachkommateil(pi_str) == SliceAb(pi_str, Find(pi_str, <<".">>) + 1)

-----------------------------------------------------------------------------
(* lines 59-113: the illustrations of a match position *)

\* x / d rounded to the nearest integer, for x >= 0
Runde(x, d) == (2 * x + d) \div (2 * d)

\* lines 62-65: 2 seconds per digit, whole hours and remaining minutes
SchreibDauer(position) ==
    LET zeit_sekunden == position * 2
    IN  [stunden |-> zeit_sekunden \div 3600,
         minuten |-> (zeit_sekunden % 3600) \div 60]

\* the line counted from the start of the book, not of the page
BuchPositionOhneModulo(position) ==
    [seite |-> position \div (50 * 80) + 1, zeile |-> position \div 80 + 1]

\* lines 73-75: 50 lines of 80 characters per page
BuchPosition(position) ==
    LET ziffern_pro_seite == 50 * 80
    IN  [seite |-> position \div ziffern_pro_seite + 1,
         zeile |-> (position % ziffern_pro_seite) \div 80 + 1]

\* line 84: strecke_meter = position * 0.003, in units of 10^-5 m.  The double
\* product lies within one such unit of the exact product; err is the deviation.
StreckeMeter(position, err) ==
    IF position = 0 THEN 0 ELSE position * 300 + err

\* the metres compared with 1 in place of the kilometres
UnterEinemMeter(strecke_meter) == strecke_meter < 100000

\* line 87: strecke_km < 1, strecke_km being strecke_meter / 1000
UnterEinemKm(strecke_meter) == strecke_meter < 1000 * 100000

\* lines 83-96: meters and steps below one kilometre, else kilometres and hours;
\* the numbers are those the format specifiers .1f, .0f, .2f, .1f print
Wanderung(position, err) ==
    LET strecke_meter == StreckeMeter(position, err)
    IN  IF UnterEinemKm(strecke_meter)
        THEN [form |-> "Meter_Schritte",
              meter_zehntel |-> Runde(strecke_meter, 10000),
              schritte |-> Runde(strecke_meter, 150000)]
        ELSE [form |-> "km_Stunden",
              km_hundertstel |-> Runde(strecke_meter, 1000000),
              stunden_zehntel |-> Runde(strecke_meter, 50000000)]

\* the window start without the clamp at 0
KontextStartOhneMax(position) == position - 10

\* line 99: start = max(0, position - 10)
KontextStart(position) == Max(0, position - 10)

\* line 100: ende = min(len(nachkommastellen), position + len(suchstring) + 10)
KontextEnde(nachkommastellen, suchstring, position) ==
    Min(Len(nachkommastellen), position + Len(suchstring) + 10)

\* lines 99-112: the digits around the match, the match in brackets
Kontext(nachkommastellen, suchstring, position) ==
    LET start == KontextStart(position)
        ende == KontextEnde(nachkommastellen, suchstring, position)
        kontext == Slice(nachkommastellen, start, ende)
        markierung_start == position - start
        markierung_ende == markierung_start + Len(suchstring)
        kontext_markiert ==
            SliceBis(kontext, markierung_start)
            \o <<"[">> \o Slice(kontext, markierung_start, markierung_ende) \o <<"]">>
            \o SliceAb(kontext, markierung_ende)
    IN  <<".", ".", ".">> \o kontext_markiert \o <<".", ".", ".">>

\* line 113
PiPosition(nachkommastellen, suchstring, position) ==
    <<"3", ",">> \o SliceBis(nachkommastellen, position)
    \o <<"[">> \o suchstring \o <<"]", ".", ".", ".">>

\* lines 43-115: the dictionary returned for the result of find
Ergebnis(nachkommastellen, suchstring, max_stellen, err, position) ==
    IF position = -1
    THEN [gefunden |-> FALSE,
          suchstring |-> suchstring,
          nachricht |-> [suchstring |-> suchstring, max_stellen |-> max_stellen],
          tipp |-> "Versuche es mit mehr Nachkommastellen (erhoehe max_stellen)."]
    ELSE [gefunden |-> TRUE,
          suchstring |-> suchstring,
          position |-> position,
          laenge |-> Len(suchstring),
          schreib_dauer |-> SchreibDauer(position),
          buch_position |-> BuchPosition(position),
          wanderung |-> Wanderung(position, err),
          kontext |-> Kontext(nachkommastellen, suchstring, position),
          pi_position |-> PiPosition(nachkommastellen, suchstring, position)]

\* lines 40-115: the search and the dictionary returned
Suche(nachkommastellen, suchstring, max_stellen, err) ==
    Ergebnis(nachkommastellen, suchstring, max_stellen, err,
             Find(nachkommastellen, suchstring))

\* a working precision that is only ever raised
ArbeitspraezisionNurHoeher(max_stellen, dps_vor) == Max(dps_vor, max_stellen + 100)

\* line 34: the working precision the call sets
Arbeitspraezision(max_stellen, dps_vor) == max_stellen + 100

\* finde_geburtsdatum_in_pi run from entry to return with mp.dps = dps_vor at
\* entry: the dictionary returned, mp.dps at return, whether str(mp.pi) ran
NachValidierung(v, max_stellen, dps_vor, err) ==
    IF ~v.ok
    THEN [ergebnis |-> v.ergebnis, dps |-> dps_vor, pi |-> FALSE]
    ELSE [ergebnis |-> Suche(Nachkommateil(PiStr(Arbeitspraezision(max_stellen, dps_vor))),
                             v.suchstring, max_stellen, err),
          dps |-> Arbeitspraezision(max_stellen, dps_vor),
          pi |-> TRUE]

Finde(geburtsdatum, geburtszeit, max_stellen, dps_vor, err) ==
    NachValidierung(Validierung(geburtsdatum, geburtszeit), max_stellen, dps_vor, err)

-----------------------------------------------------------------------------
(* Arguments of the modelled calls *)

\* "23.07.8164": decimals 63-70 of pi
D_23_07_8164 == <<"2", "3", ".", "0", "7", ".", "8", "1", "6", "4">>
\* "17.06.7982": decimals 95-102 of pi
D_17_06_7982 == <<"1", "7", ".", "0", "6", ".", "7", "9", "8", "2">>
\* "15.03.1990": the docstring's example, in none of the modelled decimals
D_15_03_1990 == <<"1", "5", ".", "0", "3", ".", "1", "9", "9", "0">>
\* "5.9.2653": day and month without leading zero; decimals 4-9 of pi
D_5_9_2653 == <<"5", ".", "9", ".", "2", "6", "5", "3">>
\* "1.4.1592": decimals 1-6 of pi
D_1_4_1592 == <<"1", ".", "4", ".", "1", "5", "9", "2">>
\* " 1.03.1990": a blank before the day
D_blank_1_03_1990 == <<" ", "1", ".", "0", "3", ".", "1", "9", "9", "0">>
\* "31.02.1990": no calendar date
D_31_02_1990 == <<"3", "1", ".", "0", "2", ".", "1", "9", "9", "0">>
\* "15.03.90": two-digit year
D_15_03_90 == <<"1", "5", ".", "0", "3", ".", "9", "0">>
\* "01.01.2000": the date of the second call of __main__
D_01_01_2000 == <<"0", "1", ".", "0", "1", ".", "2", "0", "0", "0">>

\* "06.28": with "23.07.8164" decimals 63-74 of pi
Z_06_28 == <<"0", "6", ".", "2", "8">>
\* "99.99": no time of day
Z_99_99 == <<"9", "9", ".", "9", "9">>
\* "06.28\n"
Z_06_28_LF == <<"0", "6", ".", "2", "8", "LF">>
\* "0628": no dot
Z_0628 == <<"0", "6", "2", "8">>
\* "12.30": the time of the second call of __main__
Z_12_30 == <<"1", "2", ".", "3", "0">>

Daten == {D_23_07_8164, D_17_06_7982, D_15_03_1990, D_5_9_2653, D_1_4_1592,
          D_blank_1_03_1990, D_31_02_1990, D_15_03_90}

Zeiten == {None, <<>>, Z_06_28, Z_99_99, Z_06_28_LF, Z_0628}

Budgets == {1, 6, MaxStellen}

-----------------------------------------------------------------------------
(* Spec: a session of calls of finde_geburtsdatum_in_pi, one after another *)

\* the threads that may call the function
Threads == {1, 2}

\* a thread outside the function
Ausserhalb ==
    [pc |-> "aus", geburtsdatum |-> <<>>, geburtszeit |-> None, max_stellen |-> 0,
     dps_vor |-> 0, allein |-> FALSE, suchstring |-> <<>>, dps_gelesen |-> 0,
     pi_str |-> <<>>, ergebnis |-> Kein]

\* the __main__ block before its first statement
HauptStart ==
    [pc |-> "start", message |-> <<>>, ergebnis1 |-> Kein, ergebnis2 |-> Kein,
     ausgabe |-> <<>>]

InitRest ==
    /\ proc = <<Ausserhalb, Ausserhalb>>
    /\ haupt = HauptStart
    /\ stelle = 0
    /\ analog = Kein

Init ==
    /\ mp_dps = DpsStandard
    /\ aufruf = Kein
    /\ ergebnis = Kein
    /\ pi_berechnet = FALSE
    /\ ref = Kein
    /\ InitRest

\* the state after a call that ran as r tells
Rueckkehr(geburtsdatum, geburtszeit, max_stellen, r) ==
    /\ mp_dps' = r.dps
    /\ aufruf' = [geburtsdatum |-> geburtsdatum,
                  geburtszeit |-> geburtszeit,
                  max_stellen |-> max_stellen]
    /\ ergebnis' = r.ergebnis
    /\ pi_berechnet' = r.pi
    /\ ref' = IF ref # Kein /\ r.pi /\ max_stellen # ref.aufruf.max_stellen
              THEN [ref EXCEPT !.dazwischen = TRUE]
              ELSE ref
    /\ UNCHANGED <<proc, haupt, stelle, analog>>

\* one call, from entry to return
Aufruf(geburtsdatum, geburtszeit, max_stellen) ==
    Rueckkehr(geburtsdatum, geburtszeit, max_stellen,
              Finde(geburtsdatum, geburtszeit, max_stellen, mp_dps, 0))

\* the caller keeps the last call's arguments and result to compare later ones with
Merke ==
    /\ aufruf # Kein
    /\ ref' = [aufruf |-> aufruf, ergebnis |-> ergebnis, dazwischen |-> FALSE]
    /\ UNCHANGED <<mp_dps, aufruf, ergebnis, pi_berechnet, proc, haupt, stelle, analog>>

Next ==
    \E d \in Daten, z \in Zeiten, n \in Budgets : Aufruf(d, z, n)

Spec == Init /\ [][Next]_vars

-----------------------------------------------------------------------------
(* SpecDet: a session in which the caller keeps a result and compares *)

DatenDet == {D_23_07_8164, D_17_06_7982, D_5_9_2653, D_31_02_1990}

ZeitenDet == {None, Z_06_28}

NextDet ==
    \/ \E d \in DatenDet, z \in ZeitenDet, n \in Budgets : Aufruf(d, z, n)
    \/ Merke

SpecDet == Init /\ [][NextDet]_vars

-----------------------------------------------------------------------------
(* Properties of a single call (Spec) *)

Aufgerufen == aufruf # Kein

Gefunden == Aufgerufen /\ "gefunden" \in DOMAIN ergebnis /\ ergebnis.gefunden

\* the shape ##.## : two digits, a dot, two digits, and nothing else
ZeitForm(t) ==
    /\ Len(t) = 5
    /\ \A i \in {1, 2, 4, 5} : t[i] \in Ziffern
    /\ t[3] = "."

NurZiffern(s) == \A i \in 1..Len(s) : s[i] \in Ziffern

\* a number below 100 as two digits
Zweistellig(n) == <<Zeichen(n \div 10), Zeichen(n % 10)>>

\* 1-based index of the k-th dot of s
Punkt(s, k) ==
    CHOOSE i \in 1..Len(s) :
        s[i] = "." /\ Cardinality({j \in 1..i : s[j] = "."}) = k

\* day, month and year of an accepted date, zero-padded to 2, 2 and 4 digits
DatumAchtstellig(d) ==
    Zweistellig(TokenWert(SubSeq(d, 1, Punkt(d, 1) - 1)))
    \o Zweistellig(TokenWert(SubSeq(d, Punkt(d, 1) + 1, Punkt(d, 2) - 1)))
    \o SubSeq(d, Punkt(d, 2) + 1, Len(d))

\* C1: for a valid date and no time, the call returns found = false without an
\* offset, or found = true with 0 <= offset <= max_stellen - len(pattern)
C1_TrefferImBudget ==
    (Aufgerufen /\ Strptime(aufruf.geburtsdatum) /\ aufruf.geburtszeit = None) =>
        \/ /\ ergebnis.gefunden = FALSE
           /\ "position" \notin DOMAIN ergebnis
        \/ /\ ergebnis.gefunden = TRUE
           /\ 0 <= ergebnis.position
           /\ ergebnis.position <= aufruf.max_stellen - Len(ergebnis.suchstring)

\* C2: a date that fails parsing, or a given time that is not of the shape ##.##,
\* gives a result carrying only the error message, with no pi computation; the
\* date error wins when both are malformed
C2_FehlerVorPi ==
    Aufgerufen =>
        /\ (\/ ~Strptime(aufruf.geburtsdatum)
            \/ aufruf.geburtszeit # None /\ ~ZeitForm(aufruf.geburtszeit))
           => (DOMAIN ergebnis = {"fehler"} /\ ~pi_berechnet)
        /\ ~Strptime(aufruf.geburtsdatum) => ergebnis = [fehler |-> FehlerDatum]

\* C3: with a valid date, a provided time is accepted iff it has the shape ##.##;
\* every other provided time gives the invalid-time-format error
C3_ZeitGenauForm ==
    (Aufgerufen /\ Strptime(aufruf.geburtsdatum) /\ aufruf.geburtszeit # None) =>
        IF ZeitForm(aufruf.geburtszeit)
        THEN "fehler" \notin DOMAIN ergebnis
        ELSE ergebnis = [fehler |-> FehlerZeit]

\* C4: the search pattern of an accepted date is digits only: day, month, year
\* zero-padded to 2, 2, 4 digits (length 8), then the time's digits (length 12)
C4_MusterNurZiffern ==
    (Aufgerufen /\ "suchstring" \in DOMAIN ergebnis) =>
        /\ NurZiffern(ergebnis.suchstring)
        /\ Len(ergebnis.suchstring) = IF aufruf.geburtszeit = None THEN 8 ELSE 12
        /\ SubSeq(ergebnis.suchstring, 1, 8) = DatumAchtstellig(aufruf.geburtsdatum)

\* the digit string the last call searched
Durchsucht == Nachkommateil(PiStr(mp_dps))

KontextLinks == SubSeq(Durchsucht, Max(0, ergebnis.position - 10) + 1, ergebnis.position)

KontextRechts ==
    SubSeq(Durchsucht,
           ergebnis.position + Len(ergebnis.suchstring) + 1,
           Min(Len(Durchsucht), ergebnis.position + Len(ergebnis.suchstring) + 10))

\* C7: the context of a match at p is "..." + digits[max(0,p-10):p] + "[" +
\* pattern + "]" + digits[p+L:min(N,p+L+10)] + "...", at most 10 digits on
\* either side, and for p < 10 the left part is the first p digits
C7_KontextFenster ==
    Gefunden =>
        /\ ergebnis.kontext =
               <<".", ".", ".">> \o KontextLinks \o <<"[">> \o ergebnis.suchstring
               \o <<"]">> \o KontextRechts \o <<".", ".", ".">>
        /\ Len(KontextLinks) <= 10
        /\ Len(KontextRechts) <= 10
        /\ ergebnis.position < 10 =>
               KontextLinks = SubSeq(Durchsucht, 1, ergebnis.position)

\* a match with fewer than 10 digits before it
C7_Zeuge == Gefunden /\ ergebnis.position > 0 /\ ergebnis.position < 10

\* a match with fewer than 10 digits after it
KontextRechtsKurz == Gefunden /\ Len(KontextRechts) < 10

-----------------------------------------------------------------------------
(* Properties of a session (SpecDet) *)

\* C5: a call with the arguments of an earlier call returns the same result,
\* whatever calls were made in between
C5_Determinismus ==
    (ref # Kein /\ aufruf = ref.aufruf) => ergebnis = ref.ergebnis

\* the kept call repeated after a call with another budget, with a match
C5_Zeuge ==
    /\ ref # Kein
    /\ ref.dazwischen
    /\ aufruf = ref.aufruf
    /\ "gefunden" \in DOMAIN ergebnis
    /\ ergebnis.gefunden

-----------------------------------------------------------------------------
(* SpecConc: threads inside finde_geburtsdatum_in_pi, statement by statement *)

DatenConc == {D_17_06_7982, D_31_02_1990}

\* the locals of a thread that has run lines 18-31 with mp.dps = dps at entry
NachEintritt(geburtsdatum, geburtszeit, max_stellen, dps, allein, v) ==
    IF v.ok
    THEN [Ausserhalb EXCEPT
             !.pc = "setze_dps",
             !.geburtsdatum = geburtsdatum,
             !.geburtszeit = geburtszeit,
             !.max_stellen = max_stellen,
             !.dps_vor = dps,
             !.allein = allein,
             !.suchstring = v.suchstring]
    ELSE [Ausserhalb EXCEPT
             !.pc = "fertig",
             !.geburtsdatum = geburtsdatum,
             !.geburtszeit = geburtszeit,
             !.max_stellen = max_stellen,
             !.dps_vor = dps,
             !.allein = allein,
             !.ergebnis = v.ergebnis]

\* lines 18-31: entry, validation, the search string; an invalid argument
\* returns.  allein records that no other thread is inside the function from
\* this call's entry on.
Eintritt(t, geburtsdatum, geburtszeit, max_stellen) ==
    /\ proc[t].pc = "aus"
    /\ proc' = [u \in Threads |->
           IF u = t
           THEN NachEintritt(geburtsdatum, geburtszeit, max_stellen, mp_dps,
                             \A w \in Threads \ {t} : proc[w].pc = "aus",
                             Validierung(geburtsdatum, geburtszeit))
           ELSE [proc[u] EXCEPT !.allein = FALSE]]
    /\ UNCHANGED <<mp_dps, aufruf, ergebnis, pi_berechnet, ref, haupt, stelle, analog>>

\* line 34: mp.dps = max_stellen + 100
SetzeDps(t) ==
    /\ proc[t].pc = "setze_dps"
    /\ mp_dps' = Arbeitspraezision(proc[t].max_stellen, mp_dps)
    /\ proc' = [proc EXCEPT ![t].pc = "pi_str"]
    /\ UNCHANGED <<aufruf, ergebnis, pi_berechnet, ref, haupt, stelle, analog>>

\* line 35: pi_str = str(mp.pi), at the working precision mp.dps holds now
BerechnePi(t) ==
    /\ proc[t].pc = "pi_str"
    /\ proc' = [proc EXCEPT ![t].pc = "suche",
                            ![t].dps_gelesen = mp_dps,
                            ![t].pi_str = PiStr(mp_dps)]
    /\ UNCHANGED <<mp_dps, aufruf, ergebnis, pi_berechnet, ref, haupt, stelle, analog>>

\* lines 38-115: the search in the thread's own pi_str, and the return
Suchen(t) ==
    /\ proc[t].pc = "suche"
    /\ proc' = [proc EXCEPT ![t].pc = "fertig",
                            ![t].ergebnis = Suche(Nachkommateil(proc[t].pi_str),
                                                  proc[t].suchstring,
                                                  proc[t].max_stellen, 0)]
    /\ UNCHANGED <<mp_dps, aufruf, ergebnis, pi_berechnet, ref, haupt, stelle, analog>>

\* the caller has taken the result
Verlassen(t) ==
    /\ proc[t].pc = "fertig"
    /\ proc' = [proc EXCEPT ![t] = Ausserhalb]
    /\ UNCHANGED <<mp_dps, aufruf, ergebnis, pi_berechnet, ref, haupt, stelle, analog>>

NextConc ==
    \E t \in Threads :
        \/ \E d \in DatenConc, n \in Budgets : Eintritt(t, d, None, n)
        \/ SetzeDps(t)
        \/ BerechnePi(t)
        \/ Suchen(t)
        \/ Verlassen(t)

SpecConc == Init /\ [][NextConc]_vars

\* C6: a call that ran with no other thread inside the function leaves mp.dps
\* as it found it, and a call that computes pi computes it at its own
\* max_stellen + 100, also when calls interleave
C6_KeinGeteilterZustand ==
    \A t \in Threads :
        /\ (proc[t].pc = "fertig" /\ proc[t].allein) => mp_dps = proc[t].dps_vor
        /\ proc[t].pc = "suche" => proc[t].dps_gelesen = proc[t].max_stellen + 100

\* the second half of C6 alone
EigenePraezision ==
    \A t \in Threads :
        proc[t].pc = "suche" => proc[t].dps_gelesen = proc[t].max_stellen + 100

-----------------------------------------------------------------------------
(* SpecMain: the __main__ block *)

\* the default of max_stellen (1_000_000 in the source), scaled to the decimals
\* the model holds
StandardStellen == MaxStellen

\* "28.03.4825": decimals 83-90 of pi
D_28_03_4825 == <<"2", "8", ".", "0", "3", ".", "4", "8", "2", "5">>
\* "23.06.6470": decimals 114-121 of pi
D_23_06_6470 == <<"2", "3", ".", "0", "6", ".", "6", "4", "7", "0">>
\* "08.12.8481": decimals 146-153 of pi
D_08_12_8481 == <<"0", "8", ".", "1", "2", ".", "8", "4", "8", "1">>
\* "27.01.9385": decimals 165-172 of pi
D_27_01_9385 == <<"2", "7", ".", "0", "1", ".", "9", "3", "8", "5">>
\* "29.02.2000": a leap day
D_29_02_2000 == <<"2", "9", ".", "0", "2", ".", "2", "0", "0", "0">>
\* "19.12.1995": the date of the closing line
D_19_12_1995 == <<"1", "9", ".", "1", "2", ".", "1", "9", "9", "5">>
\* "9.7.9323": decimals 12-17 of pi
D_9_7_9323 == <<"9", ".", "7", ".", "9", "3", "2", "3">>
\* "3.2.3846": decimals 15-20 of pi
D_3_2_3846 == <<"3", ".", "2", ".", "3", "8", "4", "6">>
\* "2.6.4338": decimals 21-26 of pi
D_2_6_4338 == <<"2", ".", "6", ".", "4", "3", "3", "8">>
\* "3.8.3279": decimals 25-30 of pi
D_3_8_3279 == <<"3", ".", "8", ".", "3", "2", "7", "9">>
\* "29.02.1900": no leap day
D_29_02_1900 == <<"2", "9", ".", "0", "2", ".", "1", "9", "0", "0">>
\* "15-03-1990": dashes
D_15m03m1990 == <<"1", "5", "-", "0", "3", "-", "1", "9", "9", "0">>
\* "15.03.1990\n": a trailing newline
D_15_03_1990_LF == <<"1", "5", ".", "0", "3", ".", "1", "9", "9", "0", "LF">>
\* "abc": no date
D_abc == <<"a", "b", "c">>
\* "": nothing typed
D_leer == <<>>

\* what may be typed at the prompt
Eingaben ==
    Daten \cup {D_01_01_2000, D_28_03_4825, D_23_06_6470, D_08_12_8481, D_27_01_9385,
              D_29_02_2000, D_19_12_1995, D_9_7_9323, D_3_2_3846,
              D_2_6_4338, D_3_8_3279, D_29_02_1900, D_15m03m1990,
              D_15_03_1990_LF, D_abc, D_leer}

\* ergebnis.get("gefunden") taken as a condition
GetGefunden(d) == "gefunden" \in DOMAIN d /\ d.gefunden

\* the keys the report of a result looks up: lines 131-136 or line 138
Nachgeschlagen(d) ==
    IF GetGefunden(d)
    THEN {"suchstring", "position", "kontext", "schreib_dauer", "buch_position",
          "wanderung"}
    ELSE {"nachricht"}

\* lines 120-127: the banner, the prompt, and the line read
Eingabe(message) ==
    /\ haupt.pc = "start"
    /\ haupt' = [haupt EXCEPT !.pc = "aufruf1", !.message = message,
                              !.ausgabe = <<"kopf">>]
    /\ UNCHANGED <<mp_dps, aufruf, ergebnis, pi_berechnet, ref, proc, stelle, analog>>

\* the main block goes on with the result r of a call
NachAufruf(feld, weiter, r) ==
    /\ mp_dps' = r.dps
    /\ haupt' = [haupt EXCEPT !.pc = weiter, ![feld] = r.ergebnis]
    /\ UNCHANGED <<aufruf, ergebnis, pi_berechnet, ref, proc, stelle, analog>>

\* line 128: ergebnis1 = finde_geburtsdatum_in_pi(message)
Aufruf1 ==
    /\ haupt.pc = "aufruf1"
    /\ NachAufruf("ergebnis1", "ausgabe1",
                  Finde(haupt.message, None, StandardStellen, mp_dps, 0))

\* line 143: ergebnis2 = finde_geburtsdatum_in_pi("01.01.2000", "12.30")
Aufruf2 ==
    /\ haupt.pc = "aufruf2"
    /\ NachAufruf("ergebnis2", "ausgabe2",
                  Finde(D_01_01_2000, Z_12_30, StandardStellen, mp_dps, 0))

\* lines 130-138 and 145-153: the report of a result; a key that is looked up
\* and missing raises KeyError, which nothing catches
Bericht(d, weiter) ==
    /\ haupt' =
           IF Nachgeschlagen(d) \subseteq DOMAIN d
           THEN [haupt EXCEPT
                    !.pc = weiter,
                    !.ausgabe = Append(@, IF GetGefunden(d) THEN "erfolg"
                                          ELSE "nicht_gefunden")]
           ELSE [haupt EXCEPT !.pc = "KeyError"]
    /\ UNCHANGED <<mp_dps, aufruf, ergebnis, pi_berechnet, ref, proc, stelle, analog>>

Ausgabe1 == haupt.pc = "ausgabe1" /\ Bericht(haupt.ergebnis1, "aufruf2")

Ausgabe2 == haupt.pc = "ausgabe2" /\ Bericht(haupt.ergebnis2, "schluss")

\* lines 155-157: the closing lines
Schluss ==
    /\ haupt.pc = "schluss"
    /\ haupt' = [haupt EXCEPT !.pc = "ende", !.ausgabe = Append(@, "schluss")]
    /\ UNCHANGED <<mp_dps, aufruf, ergebnis, pi_berechnet, ref, proc, stelle, analog>>

NextMain ==
    \/ \E m \in Eingaben : Eingabe(m)
    \/ Aufruf1
    \/ Ausgabe1
    \/ Aufruf2
    \/ Ausgabe2
    \/ Schluss

SpecMain == Init /\ [][NextMain]_vars

\* C10: whatever is typed, the block never ends in an unhandled exception, and
\* once past the first report it has printed a success or a failure message
C10_KeinAbbruch ==
    /\ haupt.pc # "KeyError"
    /\ haupt.pc \in {"aufruf2", "ausgabe2", "schluss", "ende"} =>
           haupt.ausgabe[2] \in {"erfolg", "nicht_gefunden"}

-----------------------------------------------------------------------------
(* SpecAnalogy: the illustrations as functions of the match position *)

\* the least position whose distance is a kilometre: 1000 m at 3 mm a digit
KmSchwelle == (1000 * 1000) \div 3 + 1

Stellen ==
    (0..MaxPosition) \cup ((KmSchwelle - Fenster)..(KmSchwelle + Fenster))

\* the deviation of the double product from the exact one, in units of 10^-5 m
Abweichungen == {-1, 0, 1}

InitAnalogy ==
    /\ mp_dps = DpsStandard
    /\ aufruf = Kein
    /\ ergebnis = Kein
    /\ pi_berechnet = FALSE
    /\ ref = Kein
    /\ proc = <<Ausserhalb, Ausserhalb>>
    /\ haupt = HauptStart
    /\ stelle \in Stellen
    /\ analog = Kein

\* lines 61-96 for the position stelle
Veranschauliche ==
    /\ analog = Kein
    /\ \E err \in Abweichungen :
           analog' = [schreib_dauer |-> SchreibDauer(stelle),
                      buch_position |-> BuchPosition(stelle),
                      wanderung |-> Wanderung(stelle, err)]
    /\ UNCHANGED <<mp_dps, aufruf, ergebnis, pi_berechnet, ref, proc, haupt, stelle>>

NextAnalogy == Veranschauliche

SpecAnalogy == InitAnalogy /\ [][NextAnalogy]_vars

\* C8: page = p \div 4000 + 1 and line = (p % 4000) \div 80 + 1, 1 <= line <= 50,
\* (page-1)*4000 + (line-1)*80 <= p < (page-1)*4000 + line*80, and the three
\* cases 4000, 79 and 80
C8_BuchPosition ==
    analog # Kein =>
        /\ analog.buch_position.seite = stelle \div 4000 + 1
        /\ analog.buch_position.zeile = (stelle % 4000) \div 80 + 1
        /\ analog.buch_position.zeile >= 1
        /\ analog.buch_position.zeile <= 50
        /\ (analog.buch_position.seite - 1) * 4000
               + (analog.buch_position.zeile - 1) * 80 <= stelle
        /\ stelle < (analog.buch_position.seite - 1) * 4000
               + analog.buch_position.zeile * 80
        /\ stelle = 4000 => analog.buch_position = [seite |-> 2, zeile |-> 1]
        /\ stelle = 79 => analog.buch_position = [seite |-> 1, zeile |-> 1]
        /\ stelle = 80 => analog.buch_position = [seite |-> 1, zeile |-> 2]

\* position 4000 illustrated: the first line of page 2
C8_Zeuge ==
    /\ analog # Kein
    /\ stelle = 4000
    /\ analog.buch_position.seite = 2

\* C9: meters and steps exactly when 3 * p < 1,000,000 (p <= 333,333),
\* kilometres and hours for p >= 333,334, and one form only
C9_Einheitenwechsel ==
    analog # Kein =>
        /\ analog.wanderung.form = "Meter_Schritte" <=> 3 * stelle < 1000000
        /\ analog.wanderung.form = "Meter_Schritte" <=> stelle <= 333333
        /\ analog.wanderung.form = "km_Stunden" <=> stelle >= 333334
        /\ \/ DOMAIN analog.wanderung = {"form", "meter_zehntel", "schritte"}
           \/ DOMAIN analog.wanderung = {"form", "km_hundertstel", "stunden_zehntel"}

\* the first position reported in kilometres
C9_Zeuge ==
    /\ analog # Kein
    /\ stelle = 333334
    /\ analog.wanderung.form = "km_Stunden"

====
